---- MODULE Spec2Model ----
(***************************************************************************)
(* A model of the boxing simulator: the boxers table (boxers_model.py),    *)
(* the ring (ring_model.py) and the random source (api_utils.py).          *)
(*                                                                         *)
(* Every handler is a pure operator from the state and its inputs to the   *)
(* new state and the handler's outcome; the actions apply the operators.   *)
(* An outcome's "result" is "ok" or the error the handler raises, named by *)
(* its kind (Python raises ValueError, TypeError or RuntimeError).         *)
(*                                                                         *)
(* Numbers: skills are kept in tenths (reach / 10 is the only fraction of  *)
(* get_fighting_skill) and the random draw in hundredths (random.org is    *)
(* asked for two decimals).  Database faults (sqlite3.Error) are re-raised *)
(* by the store functions without a committed change and are not injected. *)
(***************************************************************************)
EXTENDS Integers, Sequences, FiniteSets, TLC

\* ----------------------------------------------------------------- bounds
MaxId == 2          \* ids the table assigns before create is cut off
MaxFights == 1      \* cap on a row's fights counter
MaxBoutFights == 2  \* cap on a row's fights counter in the runs of fights only
WeightSpan == 30    \* weights tried below the lowest and above the highest limit

\* ------------------------------------------------------------ input sets
Names == {"Al", "Bo"}
\* <<weight, height, reach, age>> as given to create_boxer: two that pass
\* every check (skills 256.0 and 256.2 under a two-letter name), and others
\* that fail one check or several.
Applications ==
    {<<125, 170, 70, 20>>, <<126, 170, 62, 38>>,
     <<124, 170, 70, 20>>, <<125, 0, 70, 20>>, <<125, 170, 0, 20>>,
     <<125, 170, 70, 17>>, <<125, 170, 70, 41>>, <<124, 0, 0, 17>>,
     <<125, -1, 0, 41>>}
Outcomes == {"win", "loss", "draw"}
SortKeys == {"wins", "win_pct", "name"}
Draws == {49, 50, 54, 55}
\* The weights given to get_weight_class: around and between its limits.
WeightsTried == (125 - WeightSpan) .. (203 + WeightSpan)
Ids == 1 .. MaxId

\* boxers: the boxers table, id -> row; nextId: the id the next INSERT gets;
\* ring: RingModel.ring; entered: the boxers entered since the ring was last
\* emptied, as the caller saw them go in; last: the handler that ran last;
\* bouts: the calls of fight that have returned a winner, counted in the runs
\* of fights only (SpecBouts) and left at 0 in the others.
VARIABLES boxers, nextId, ring, entered, last, bouts
vars == <<boxers, nextId, ring, entered, last, bouts>>

Abs(x) == IF x < 0 THEN -x ELSE x

\* ------------------------------------------------------- boxers_model.py
\* Mutant: the limits are exclusive.
get_weight_class_exclusive(weight) ==
    IF weight > 203 THEN "HEAVYWEIGHT"
    ELSE IF weight > 166 THEN "MIDDLEWEIGHT"
    ELSE IF weight > 133 THEN "LIGHTWEIGHT"
    ELSE IF weight > 125 THEN "FEATHERWEIGHT"
    ELSE "InvalidWeight"

get_weight_class(weight) ==
    IF weight >= 203 THEN "HEAVYWEIGHT"
    ELSE IF weight >= 166 THEN "MIDDLEWEIGHT"
    ELSE IF weight >= 133 THEN "LIGHTWEIGHT"
    ELSE IF weight >= 125 THEN "FEATHERWEIGHT"
    ELSE "InvalidWeight"

\* The dataclass Boxer: the six fields and the derived weight_class.
Boxer(id, name, weight, height, reach, age) ==
    [id |-> id, name |-> name, weight |-> weight, height |-> height,
     reach |-> reach, age |-> age, weight_class |-> get_weight_class(weight)]

\* Column defaults of the boxers table for the columns INSERT leaves out.
DefaultFights == 0
DefaultWins == 0

\* The id the table assigns after nid: ids go up by one and are not reused.
FollowingId(nid) == nid + 1

\* The row INSERT adds: the five given columns and the defaulted counters.
NewRow(name, weight, height, reach, age) ==
    [name |-> name, weight |-> weight, height |-> height, reach |-> reach,
     age |-> age, fights |-> DefaultFights, wins |-> DefaultWins]

\* Mutant: the uniqueness check is left out.
NameExists_never(store, name) == FALSE

\* SELECT 1 FROM boxers WHERE name = ?
NameExists(store, name) == \E i \in DOMAIN store : store[i].name = name

\* Mutant: the age is checked first.
ValidateBoxer_age_first(weight, height, reach, age) ==
    IF ~(18 <= age /\ age <= 40) THEN "InvalidAge"
    ELSE IF weight < 125 THEN "InvalidWeight"
    ELSE IF height <= 0 THEN "InvalidHeight"
    ELSE IF reach <= 0 THEN "InvalidReach"
    ELSE "ok"

\* The four checks of create_boxer, in the order of the code.
ValidateBoxer(weight, height, reach, age) ==
    IF weight < 125 THEN "InvalidWeight"
    ELSE IF height <= 0 THEN "InvalidHeight"
    ELSE IF reach <= 0 THEN "InvalidReach"
    ELSE IF ~(18 <= age /\ age <= 40) THEN "InvalidAge"
    ELSE "ok"

create_boxer(store, nid, name, weight, height, reach, age) ==
    LET v == ValidateBoxer(weight, height, reach, age) IN
    IF v # "ok" THEN [boxers |-> store, nextId |-> nid, result |-> v]
    ELSE IF NameExists(store, name)
    THEN [boxers |-> store, nextId |-> nid, result |-> "DuplicateName"]
    ELSE [boxers |-> [i \in DOMAIN store \cup {nid} |->
                        IF i = nid THEN NewRow(name, weight, height, reach, age)
                        ELSE store[i]],
          nextId |-> FollowingId(nid), result |-> "ok"]

delete_boxer(store, boxer_id) ==
    IF boxer_id \notin DOMAIN store
    THEN [boxers |-> store, result |-> "NotFound"]
    ELSE [boxers |-> [i \in DOMAIN store \ {boxer_id} |-> store[i]],
          result |-> "ok"]

\* Only the biometric columns are selected: the snapshot has no counters.
get_boxer_by_id(store, boxer_id) ==
    IF boxer_id \in DOMAIN store
    THEN [result |-> "ok",
          boxer |-> Boxer(boxer_id, store[boxer_id].name, store[boxer_id].weight,
                          store[boxer_id].height, store[boxer_id].reach,
                          store[boxer_id].age)]
    ELSE [result |-> "NotFound", boxer |-> Boxer(boxer_id, "", 0, 0, 0, 0)]

\* Mutant: a loss is not counted as a fight.
update_boxer_stats_loss_uncounted(store, boxer_id, result) ==
    IF result \notin {"win", "loss"}
    THEN [boxers |-> store, result |-> "InvalidArgument"]
    ELSE IF boxer_id \notin DOMAIN store
    THEN [boxers |-> store, result |-> "NotFound"]
    ELSE IF result = "win"
    THEN [boxers |-> [store EXCEPT ![boxer_id].fights = @ + 1,
                                   ![boxer_id].wins = @ + 1],
          result |-> "ok"]
    ELSE [boxers |-> store, result |-> "ok"]

\* Mutant: a win is counted without its fight.
update_boxer_stats_win_without_fight(store, boxer_id, result) ==
    IF result \notin {"win", "loss"}
    THEN [boxers |-> store, result |-> "InvalidArgument"]
    ELSE IF boxer_id \notin DOMAIN store
    THEN [boxers |-> store, result |-> "NotFound"]
    ELSE IF result = "win"
    THEN [boxers |-> [store EXCEPT ![boxer_id].wins = @ + 1], result |-> "ok"]
    ELSE [boxers |-> [store EXCEPT ![boxer_id].fights = @ + 1],
          result |-> "ok"]

\* Mutant: a win is counted as a fight only.
update_boxer_stats_win_uncounted(store, boxer_id, result) ==
    IF result \notin {"win", "loss"}
    THEN [boxers |-> store, result |-> "InvalidArgument"]
    ELSE IF boxer_id \notin DOMAIN store
    THEN [boxers |-> store, result |-> "NotFound"]
    ELSE [boxers |-> [store EXCEPT ![boxer_id].fights = @ + 1],
          result |-> "ok"]

\* Mutant: a loss is counted as a win too.
update_boxer_stats_loss_wins(store, boxer_id, result) ==
    IF result \notin {"win", "loss"}
    THEN [boxers |-> store, result |-> "InvalidArgument"]
    ELSE IF boxer_id \notin DOMAIN store
    THEN [boxers |-> store, result |-> "NotFound"]
    ELSE [boxers |-> [store EXCEPT ![boxer_id].fights = @ + 1,
                                   ![boxer_id].wins = @ + 1],
          result |-> "ok"]

update_boxer_stats(store, boxer_id, result) ==
    IF result \notin {"win", "loss"}
    THEN [boxers |-> store, result |-> "InvalidArgument"]
    ELSE IF boxer_id \notin DOMAIN store
    THEN [boxers |-> store, result |-> "NotFound"]
    ELSE IF result = "win"
    THEN [boxers |-> [store EXCEPT ![boxer_id].fights = @ + 1,
                                   ![boxer_id].wins = @ + 1],
          result |-> "ok"]
    ELSE [boxers |-> [store EXCEPT ![boxer_id].fights = @ + 1],
          result |-> "ok"]

\* Every order in which a scan of the table can come upon its rows: SQL
\* leaves the order of rows that tie under ORDER BY to the engine.
ScanOrders(store) ==
    {scan \in [1 .. Cardinality(DOMAIN store) -> DOMAIN store] :
        \A j, k \in DOMAIN scan : scan[j] = scan[k] => j = k}

\* round(win_pct * 100, 1) of a row with fights > 0, in tenths of a percent.
\* No ratio of counters within the bounds lies halfway between two tenths.
RoundedWinPct(row) == (2000 * row.wins + row.fights) \div (2 * row.fights)

\* One dictionary of the list get_leaderboard returns.
LeaderboardRow(store, i) ==
    [id |-> i, name |-> store[i].name, weight |-> store[i].weight,
     height |-> store[i].height, reach |-> store[i].reach,
     age |-> store[i].age, weight_class |-> get_weight_class(store[i].weight),
     fights |-> store[i].fights, wins |-> store[i].wins,
     win_pct |-> RoundedWinPct(store[i])]

\* Mutant: ORDER BY ... ASC.
OrderedBefore_ascending(a, b, sort_by) ==
    IF sort_by = "win_pct" THEN a.wins * b.fights < b.wins * a.fights
    ELSE a.wins < b.wins

\* ORDER BY win_pct DESC / ORDER BY wins DESC: row a is to come before row b.
\* win_pct is wins * 1.0 / fights, compared here without the division.
OrderedBefore(a, b, sort_by) ==
    IF sort_by = "win_pct" THEN a.wins * b.fights > b.wins * a.fights
    ELSE a.wins > b.wins

\* ORDER BY over the rows as the scan yields them: each row goes in front of
\* the first row it is to come before.
RECURSIVE InsertOrdered(_, _, _)
InsertOrdered(row, sorted, sort_by) ==
    IF sorted = <<>> THEN <<row>>
    ELSE IF OrderedBefore(row, Head(sorted), sort_by) THEN <<row>> \o sorted
    ELSE <<Head(sorted)>> \o InsertOrdered(row, Tail(sorted), sort_by)

RECURSIVE OrderBy(_, _)
OrderBy(rows, sort_by) ==
    IF rows = <<>> THEN <<>>
    ELSE InsertOrdered(rows[Len(rows)],
                       OrderBy(SubSeq(rows, 1, Len(rows) - 1), sort_by), sort_by)

\* WHERE fights > 0, over the ids in scan order.
RECURSIVE WhereFought(_, _)
WhereFought(store, scan) ==
    IF scan = <<>> THEN <<>>
    ELSE IF store[Head(scan)].fights > 0
    THEN <<Head(scan)>> \o WhereFought(store, Tail(scan))
    ELSE WhereFought(store, Tail(scan))

\* sort_by is checked before the table is read.
get_leaderboard(store, sort_by, scan) ==
    IF sort_by \notin {"win_pct", "wins"}
    THEN [result |-> "InvalidArgument", rows |-> <<>>]
    ELSE LET fought == WhereFought(store, scan)
             selected == [k \in 1 .. Len(fought) |->
                             LeaderboardRow(store, fought[k])]
         IN [result |-> "ok", rows |-> OrderBy(selected, sort_by)]

\* ------------------------------------------------------------ api_utils.py
\* What requests.get can come back with: a timeout, another request failure
\* (connection error or an HTTP error status), or a body that float() does
\* or does not parse.
Responses ==
    {[status |-> "ok", numeric |-> TRUE, value |-> v] : v \in Draws}
    \cup {[status |-> "ok", numeric |-> FALSE, value |-> 0],
          [status |-> "timeout", numeric |-> FALSE, value |-> 0],
          [status |-> "failed", numeric |-> FALSE, value |-> 0]}

\* Mutant: a timeout falls back to a fixed draw.
get_random_fallback(resp) ==
    IF resp.status = "timeout" THEN [result |-> "ok", value |-> 50]
    ELSE IF resp.status # "ok" THEN [result |-> "Unavailable", value |-> 0]
    ELSE IF ~resp.numeric THEN [result |-> "MalformedResponse", value |-> 0]
    ELSE [result |-> "ok", value |-> resp.value]

get_random(resp) ==
    IF resp.status = "timeout" THEN [result |-> "Timeout", value |-> 0]
    ELSE IF resp.status # "ok" THEN [result |-> "Unavailable", value |-> 0]
    ELSE IF ~resp.numeric THEN [result |-> "MalformedResponse", value |-> 0]
    ELSE [result |-> "ok", value |-> resp.value]

\* ------------------------------------------------------------ ring_model.py
\* 10 * skill.
get_fighting_skill(boxer) ==
    LET age_modifier == IF boxer.age < 25 THEN -1
                        ELSE IF boxer.age > 35 THEN -2 ELSE 0
    IN 10 * (boxer.weight * Len(boxer.name)) + boxer.reach + 10 * age_modifier

\* LogisticCeil[d + 1] is the least h with h / 100 >= 1 / (1 + e^(-d / 10)),
\* for d = 0 .. 45; from d = 46 on the value is above 0.99.
LogisticCeil ==
    <<50, 53, 55, 58, 60, 63, 65, 67, 69, 72, 74, 76, 77, 79, 81, 82, 84, 85,
      86, 87, 89, 90, 91, 91, 92, 93, 94, 94, 95, 95, 96, 96, 97, 97, 97, 98,
      98, 98, 98, 99, 99, 99, 99, 99, 99, 99>>

\* Mutant: the comparison is turned around.
BelowNormalizedDelta_inverted(r, d) ==
    IF d >= Len(LogisticCeil) THEN r >= 100 ELSE r >= LogisticCeil[d + 1]

\* random_number < 1 / (1 + e^(-delta)), for a draw of r hundredths and a
\* delta of d tenths.
BelowNormalizedDelta(r, d) ==
    IF d >= Len(LogisticCeil) THEN r < 100 ELSE r < LogisticCeil[d + 1]

get_boxers(rg) == rg

\* Mutant: one boxer is taken out at a time.
clear_ring_one_out(rg) == IF rg = <<>> THEN rg ELSE Tail(rg)

\* An empty ring is returned as it is, another is cleared.
clear_ring(rg) == IF rg = <<>> THEN rg ELSE <<>>

\* Mutant: the ring is full only beyond two boxers.
enter_ring_off_by_one(rg, arg) ==
    IF ~arg.isBoxer THEN [ring |-> rg, result |-> "TypeMismatch"]
    ELSE IF Len(rg) > 2 THEN [ring |-> rg, result |-> "RingFull"]
    ELSE [ring |-> Append(rg, arg.boxer), result |-> "ok"]

\* Mutant: the boxer is put in front.
enter_ring_in_front(rg, arg) ==
    IF ~arg.isBoxer THEN [ring |-> rg, result |-> "TypeMismatch"]
    ELSE IF Len(rg) >= 2 THEN [ring |-> rg, result |-> "RingFull"]
    ELSE [ring |-> <<arg.boxer>> \o rg, result |-> "ok"]

\* arg is what the caller passes: a Boxer or a value of another type.
enter_ring(rg, arg) ==
    IF ~arg.isBoxer THEN [ring |-> rg, result |-> "TypeMismatch"]
    ELSE IF Len(rg) >= 2 THEN [ring |-> rg, result |-> "RingFull"]
    ELSE [ring |-> Append(rg, arg.boxer), result |-> "ok"]

Call(id, outcome, status) == [id |-> id, outcome |-> outcome, status |-> status]

\* Mutant: the ring is emptied on the way out of a failing fight.
Raised_clears(rg, store, result, calls, draws) ==
    [ring |-> clear_ring(rg), boxers |-> store, result |-> result,
     calls |-> calls, draws |-> draws, ret |-> ""]

\* fight left by an exception: nothing after the raising statement runs.
\* calls: the update_boxer_stats calls made, in order; draws: the number of
\* get_random calls made; ret: the returned name ("" when fight raises).
Raised(rg, store, result, calls, draws) ==
    [ring |-> rg, boxers |-> store, result |-> result,
     calls |-> calls, draws |-> draws, ret |-> ""]

\* Mutant: the random number is fetched before the occupants are counted.
Refused_after_draw(rg, store) ==
    Raised(rg, store, "InsufficientOccupants", <<>>, 1)

\* The raise of fight's first check.
Refused(rg, store) == Raised(rg, store, "InsufficientOccupants", <<>>, 0)

fight(rg, store, resp) ==
    IF Len(rg) < 2 THEN Refused(rg, store)
    ELSE
    LET boxer_1 == get_boxers(rg)[1]
        boxer_2 == get_boxers(rg)[2]
        skill_1 == get_fighting_skill(boxer_1)
        skill_2 == get_fighting_skill(boxer_2)
        delta == Abs(skill_1 - skill_2)
        rnd == get_random(resp)
    IN
    IF rnd.result # "ok" THEN Raised(rg, store, rnd.result, <<>>, 1)
    ELSE
    LET first == BelowNormalizedDelta(rnd.value, delta)
        winner == IF first THEN boxer_1 ELSE boxer_2
        loser == IF first THEN boxer_2 ELSE boxer_1
        u1 == update_boxer_stats(store, winner.id, "win")
        u2 == update_boxer_stats(u1.boxers, loser.id, "loss")
        c1 == Call(winner.id, "win", u1.result)
        c2 == Call(loser.id, "loss", u2.result)
    IN
    IF u1.result # "ok" THEN Raised(rg, u1.boxers, u1.result, <<c1>>, 1)
    ELSE IF u2.result # "ok" THEN Raised(rg, u2.boxers, u2.result, <<c1, c2>>, 1)
    ELSE [ring |-> clear_ring(rg), boxers |-> u2.boxers, result |-> "ok",
          calls |-> <<c1, c2>>, draws |-> 1, ret |-> winner.name]

\* ------------------------------------------------------------------ state
\* last: the handler that ran last and how it ended; for fight also what it
\* returned, the update_boxer_stats calls it made, the number it drew (-1
\* when it drew none) and the occupants it started with; for get_leaderboard
\* the sort_by given; for get_weight_class the class returned and the weight
\* given; for clear_ring the occupants it started with.
Done(op, result) ==
    [op |-> op, result |-> result, ret |-> "", calls |-> <<>>, r |-> -1,
     before |-> <<>>]

FightDone(out, resp, rg) ==
    [op |-> "fight", result |-> out.result, ret |-> out.ret,
     calls |-> out.calls,
     r |-> IF out.draws > 0 /\ get_random(resp).result = "ok"
           THEN get_random(resp).value ELSE -1,
     before |-> rg]

\* The counters stay within a cap.
Within(store, cap) == \A i \in DOMAIN store : store[i].fights <= cap

\* The counters stay within the bound of the model.
WithinBounds(store) == Within(store, MaxFights)

\* What a caller passes to enter_ring: a boxer fetched by id, or a value
\* that is no Boxer.
EnterArgs(store) ==
    {[isBoxer |-> TRUE, boxer |-> get_boxer_by_id(store, i).boxer] :
        i \in DOMAIN store}
    \cup {[isBoxer |-> FALSE, boxer |-> Boxer(0, "", 0, 0, 0, 0)]}

Init ==
    /\ boxers = [i \in {} |-> NewRow("", 0, 0, 0, 0)]
    /\ nextId = 1
    /\ ring = <<>>
    /\ entered = <<>>
    /\ last = Done("init", "ok")
    /\ bouts = 0

CreateBoxer ==
    \E name \in Names, a \in Applications :
        LET out == create_boxer(boxers, nextId, name, a[1], a[2], a[3], a[4]) IN
        /\ nextId <= MaxId
        /\ boxers' = out.boxers
        /\ nextId' = out.nextId
        /\ last' = Done("create_boxer", out.result)
        /\ UNCHANGED <<ring, entered, bouts>>

DeleteBoxer ==
    \E boxer_id \in Ids :
        LET out == delete_boxer(boxers, boxer_id) IN
        /\ boxers' = out.boxers
        /\ last' = Done("delete_boxer", out.result)
        /\ UNCHANGED <<nextId, ring, entered, bouts>>

UpdateBoxerStats ==
    \E boxer_id \in Ids, result \in Outcomes :
        LET out == update_boxer_stats(boxers, boxer_id, result) IN
        /\ WithinBounds(out.boxers)
        /\ boxers' = out.boxers
        /\ last' = Done("update_boxer_stats", out.result)
        /\ UNCHANGED <<nextId, ring, entered, bouts>>

EnterRing ==
    \E arg \in EnterArgs(boxers) :
        LET out == enter_ring(ring, arg) IN
        /\ ring' = out.ring
        /\ entered' = IF out.result = "ok" THEN Append(entered, arg.boxer)
                      ELSE entered
        /\ last' = Done("enter_ring", out.result)
        /\ UNCHANGED <<boxers, nextId, bouts>>

ClearRing ==
    /\ ring' = clear_ring(ring)
    /\ entered' = <<>>
    /\ last' = [Done("clear_ring", "ok") EXCEPT !.before = ring]
    /\ UNCHANGED <<boxers, nextId, bouts>>

GetLeaderboard ==
    \E sort_by \in SortKeys, scan \in ScanOrders(boxers) :
        LET out == get_leaderboard(boxers, sort_by, scan) IN
        /\ last' = [Done("get_leaderboard", out.result) EXCEPT !.ret = sort_by]
        /\ UNCHANGED <<boxers, nextId, ring, entered, bouts>>

\* fight on the program's state, as long as it keeps the counters within cap.
FightWithin(cap) ==
    \E resp \in Responses :
        LET out == fight(ring, boxers, resp) IN
        /\ Within(out.boxers, cap)
        /\ ring' = out.ring
        /\ boxers' = out.boxers
        /\ entered' = IF out.result = "ok" THEN <<>> ELSE entered
        /\ last' = FightDone(out, resp, ring)
        /\ UNCHANGED nextId

Fight == FightWithin(MaxFights) /\ UNCHANGED bouts

Next ==
    \/ CreateBoxer
    \/ DeleteBoxer
    \/ UpdateBoxerStats
    \/ EnterRing
    \/ ClearRing
    \/ Fight

Spec == Init /\ [][Next]_vars

\* The table on its own: get_leaderboard reads nothing but the table, and
\* fight writes it through update_boxer_stats only, so the tables these runs
\* reach include every table reached with fights.
NextTable ==
    \/ CreateBoxer
    \/ DeleteBoxer
    \/ UpdateBoxerStats
    \/ GetLeaderboard

SpecTable == Init /\ [][NextTable]_vars

\* get_weight_class on its own, over the weights tried.
GetWeightClass ==
    \E weight \in WeightsTried :
        LET class == get_weight_class(weight) IN
        /\ last' = [Done("get_weight_class",
                         IF class = "InvalidWeight" THEN class ELSE "ok")
                        EXCEPT !.ret = IF class = "InvalidWeight" THEN "" ELSE class,
                               !.r = weight]
        /\ UNCHANGED <<boxers, nextId, ring, entered, bouts>>

SpecWeightClass == Init /\ [][GetWeightClass]_vars

\* The runs in which the counters are written by fight only and no boxer is
\* deleted: boxers are created, enter the ring, are cleared out and fight.
BoutFight ==
    /\ FightWithin(MaxBoutFights)
    /\ bouts' = IF last'.result = "ok" THEN bouts + 1 ELSE bouts

NextBouts ==
    \/ CreateBoxer
    \/ EnterRing
    \/ ClearRing
    \/ BoutFight

SpecBouts == Init /\ [][NextBouts]_vars

\* ----------------------------------------------------------------- claims
\* The responses from which get_random gets no number.
NoNumber(resp) == resp.status # "ok" \/ ~resp.numeric

\* C1: fight() on two occupants, when the draw and both updates succeed,
\* empties the ring, makes exactly one 'win' update for the winner's id and
\* one 'loss' update for the loser's id, and so adds one fight to each of the
\* two boxers and one win to the winner only.
C1_FightCountsOneBoutEach ==
    \A resp \in Responses :
        LET out == fight(ring, boxers, resp) IN
        (Len(ring) = 2 /\ out.result = "ok") =>
            \E w \in 1 .. 2 :
                LET winner == ring[w]
                    loser == ring[3 - w]
                IN  /\ out.ring = <<>>
                    /\ out.ret = winner.name
                    /\ out.calls = <<Call(winner.id, "win", "ok"),
                                     Call(loser.id, "loss", "ok")>>
                    /\ DOMAIN out.boxers = DOMAIN boxers
                    /\ out.boxers[winner.id].fights = boxers[winner.id].fights + 1
                    /\ out.boxers[winner.id].wins = boxers[winner.id].wins + 1
                    /\ out.boxers[loser.id].fights = boxers[loser.id].fights + 1
                    /\ out.boxers[loser.id].wins = boxers[loser.id].wins
                    /\ \A i \in DOMAIN boxers \ {winner.id, loser.id} :
                           out.boxers[i] = boxers[i]

\* C2: fight() on a ring of fewer than two occupants fails with
\* InsufficientOccupants, draws no random number, makes no stats update and
\* leaves the occupants and the table as they were.
C2_FightNeedsTwo ==
    \A resp \in Responses :
        LET out == fight(ring, boxers, resp) IN
        Len(ring) < 2 =>
            /\ out.result = "InsufficientOccupants"
            /\ out.draws = 0
            /\ out.calls = <<>>
            /\ out.ring = ring
            /\ out.boxers = boxers

C2_Witness ==
    /\ last.op = "fight"
    /\ last.result = "InsufficientOccupants"
    /\ Len(ring) = 1
    /\ last.calls = <<>>
    /\ last.r = -1

\* C3: enter_ring(boxer) on a ring of two occupants fails with RingFull and
\* leaves the same two occupants in the same order.
C3_FullRingRefuses ==
    Len(ring) = 2 =>
        \A arg \in EnterArgs(boxers) :
            arg.isBoxer =>
                /\ enter_ring(ring, arg).result = "RingFull"
                /\ enter_ring(ring, arg).ring = ring

C3_Witness ==
    /\ last.op = "enter_ring"
    /\ last.result = "RingFull"
    /\ Len(ring) = 2

\* C4: the ring always holds zero, one or two occupants, and get_boxers
\* returns them in the order in which they were entered.
C4_RingHoldsInsertionOrder ==
    /\ Len(ring) \in 0 .. 2
    /\ get_boxers(ring) = entered

C4_Witness ==
    /\ last.op = "enter_ring"
    /\ last.result = "ok"
    /\ Len(ring) = 2
    /\ ring[1] # ring[2]

\* C5: with two occupants and a number drawn, the first occupant gets the
\* 'win' update and has its name returned if the draw is below
\* normalized_delta, otherwise the second; a draw below 0.5 always makes the
\* first occupant the winner; the returned name is an occupant's name.
C5_FirstWinsBelowNormalizedDelta ==
    \A resp \in Responses :
        LET out == fight(ring, boxers, resp) IN
        (Len(ring) = 2 /\ ~NoNumber(resp)) =>
            LET delta == Abs(get_fighting_skill(ring[1])
                             - get_fighting_skill(ring[2]))
                chosen == IF BelowNormalizedDelta(resp.value, delta)
                          THEN ring[1] ELSE ring[2]
            IN  /\ Len(out.calls) >= 1
                /\ out.calls[1].outcome = "win"
                /\ out.calls[1].id = chosen.id
                /\ out.result = "ok" => out.ret = chosen.name
                /\ resp.value < 50 => out.calls[1].id = ring[1].id
                /\ (resp.value < 50 /\ out.result = "ok") => out.ret = ring[1].name
                /\ out.result = "ok" => out.ret \in {ring[1].name, ring[2].name}

\* The first occupant won on a draw below 0.5 against a more skilled second.
C5_Witness ==
    /\ last.op = "fight"
    /\ last.result = "ok"
    /\ Len(last.before) = 2
    /\ last.r >= 0
    /\ last.r < 50
    /\ get_fighting_skill(last.before[2]) > get_fighting_skill(last.before[1])
    /\ last.before[1].name # last.before[2].name
    /\ last.ret = last.before[1].name

\* C6: when a stats update fails during fight(), fight() raises that error
\* and the ring keeps its two occupants in their order.
C6_FailedUpdateKeepsRing ==
    \A resp \in Responses :
        LET out == fight(ring, boxers, resp) IN
        (Len(ring) = 2 /\ \E k \in 1 .. Len(out.calls) : out.calls[k].status # "ok") =>
            /\ out.result = out.calls[Len(out.calls)].status
            /\ out.result # "ok"
            /\ out.ret = ""
            /\ out.ring = ring

C6_Witness ==
    /\ last.op = "fight"
    /\ last.result = "NotFound"
    /\ Len(last.calls) >= 1
    /\ Len(ring) = 2
    /\ ring = last.before

\* C7: when the random source fails during fight() on two occupants, fight()
\* raises after one draw attempt, makes no stats update and leaves the ring
\* and the table as they were.
C7_RandomFailureIsFatal ==
    \A resp \in Responses :
        LET out == fight(ring, boxers, resp) IN
        (Len(ring) = 2 /\ NoNumber(resp)) =>
            /\ out.result \in {"Timeout", "Unavailable", "MalformedResponse"}
            /\ out.draws = 1
            /\ out.calls = <<>>
            /\ out.ret = ""
            /\ out.ring = ring
            /\ out.boxers = boxers

C7_Witness ==
    /\ last.op = "fight"
    /\ last.result \in {"Timeout", "Unavailable", "MalformedResponse"}
    /\ last.calls = <<>>
    /\ Len(ring) = 2

\* One step, as C8 has it: update_boxer_stats on a stored id, from the state
\* it is called in, adds one to that row's fights, and one to its wins
\* exactly when the result is 'win', and changes no other row; a row's
\* counters start at 0, do not decrease, and change only in
\* update_boxer_stats (called directly or by fight).
C8_Step ==
    /\ last'.op = "update_boxer_stats" =>
           \A i \in DOMAIN boxers, o \in {"win", "loss"} :
               LET out == update_boxer_stats(boxers, i, o) IN
               /\ out.result = "ok"
               /\ DOMAIN out.boxers = DOMAIN boxers
               /\ out.boxers[i] =
                      [boxers[i] EXCEPT !.fights = @ + 1,
                                        !.wins = IF o = "win" THEN @ + 1 ELSE @]
               /\ \A j \in DOMAIN boxers \ {i} : out.boxers[j] = boxers[j]
    /\ \A i \in DOMAIN boxers' :
           IF i \in DOMAIN boxers
           THEN /\ boxers'[i].fights >= boxers[i].fights
                /\ boxers'[i].wins >= boxers[i].wins
           ELSE /\ boxers'[i].fights = 0
                /\ boxers'[i].wins = 0
    /\ (\E i \in DOMAIN boxers \cap DOMAIN boxers' :
            \/ boxers'[i].fights # boxers[i].fights
            \/ boxers'[i].wins # boxers[i].wins)
           => last'.op \in {"update_boxer_stats", "fight"}

\* C8: in every step of every run, update_boxer_stats adds one to the fights
\* of the row it is given, and one to its wins exactly on a 'win'; counters
\* start at 0, never decrease and are written by update_boxer_stats only.
C8_CountersOnlyGrow == [][C8_Step]_vars

\* A loss recorded next to a win: one row with a fight and no win, another
\* with a fight and a win.
C8_Witness ==
    /\ last.op = "update_boxer_stats"
    /\ last.result = "ok"
    /\ \E i \in DOMAIN boxers : boxers[i].fights = 1 /\ boxers[i].wins = 0
    /\ \E i \in DOMAIN boxers : boxers[i].fights = 1 /\ boxers[i].wins = 1

\* The first field, in the order weight, height, reach, age, that is out of
\* its range, as the claim states the ranges.
FirstViolation(a) ==
    IF a[1] < 125 THEN "InvalidWeight"
    ELSE IF a[2] <= 0 THEN "InvalidHeight"
    ELSE IF a[3] <= 0 THEN "InvalidReach"
    ELSE IF a[4] < 18 \/ a[4] > 40 THEN "InvalidAge"
    ELSE "none"

\* C9: create_boxer with a weight below 125, a height or reach of 0 or less,
\* or an age outside 18..40 fails with the error of the first such field and
\* inserts nothing.
C9_InvalidAttributesRejected ==
    \A name \in Names, a \in Applications :
        LET out == create_boxer(boxers, nextId, name, a[1], a[2], a[3], a[4]) IN
        FirstViolation(a) # "none" =>
            /\ out.result = FirstViolation(a)
            /\ out.boxers = boxers
            /\ out.nextId = nextId

C9_Witness ==
    /\ last.op = "create_boxer"
    /\ last.result = "InvalidReach"
    /\ DOMAIN boxers # {}

\* C10: create_boxer with a name already in the table fails with
\* DuplicateName and leaves the table as it was, otherwise it adds one row
\* with fights = 0 and wins = 0; no two rows ever share a name.
C10_NamesStayUnique ==
    /\ \A i, j \in DOMAIN boxers : boxers[i].name = boxers[j].name => i = j
    /\ \A name \in Names, a \in Applications :
           LET out == create_boxer(boxers, nextId, name, a[1], a[2], a[3], a[4]) IN
           FirstViolation(a) = "none" =>
               IF \E i \in DOMAIN boxers : boxers[i].name = name
               THEN /\ out.result = "DuplicateName"
                    /\ out.boxers = boxers
               ELSE /\ out.result = "ok"
                    /\ Cardinality(DOMAIN out.boxers \ DOMAIN boxers) = 1
                    /\ DOMAIN boxers \subseteq DOMAIN out.boxers
                    /\ \A i \in DOMAIN boxers : out.boxers[i] = boxers[i]
                    /\ \A i \in DOMAIN out.boxers \ DOMAIN boxers :
                           out.boxers[i] =
                               [name |-> name, weight |-> a[1], height |-> a[2],
                                reach |-> a[3], age |-> a[4], fights |-> 0,
                                wins |-> 0]

C10_Witness ==
    /\ last.op = "create_boxer"
    /\ last.result = "DuplicateName"
    /\ Cardinality(DOMAIN boxers) = 1

\* C11: in every reachable table state get_leaderboard by wins or by win_pct
\* returns the stored boxers with fights > 0, each of them once and no other
\* (a boxer with fights = 0 is left out), with their stored columns, in an
\* order in which the requested field does not increase from one row to the
\* next; any other sort_by fails with InvalidArgument.
C11_LeaderboardListsFoughtSorted ==
    \A sort_by \in SortKeys, scan \in ScanOrders(boxers) :
        LET out == get_leaderboard(boxers, sort_by, scan)
            fought == {i \in DOMAIN boxers : boxers[i].fights > 0}
        IN
        IF sort_by \in {"wins", "win_pct"}
        THEN /\ out.result = "ok"
             /\ {out.rows[k].id : k \in 1 .. Len(out.rows)} = fought
             /\ Len(out.rows) = Cardinality(fought)
             /\ \A k \in 1 .. Len(out.rows) :
                    /\ out.rows[k].name = boxers[out.rows[k].id].name
                    /\ out.rows[k].fights = boxers[out.rows[k].id].fights
                    /\ out.rows[k].wins = boxers[out.rows[k].id].wins
             /\ \A k \in 1 .. Len(out.rows) - 1 :
                    out.rows[k][sort_by] >= out.rows[k + 1][sort_by]
        ELSE /\ out.result = "InvalidArgument"
             /\ out.rows = <<>>

\* A leaderboard by win_pct of two boxers after their bout, the winner first.
C11_Witness ==
    /\ last.op = "get_leaderboard"
    /\ last.result = "ok"
    /\ last.ret = "win_pct"
    /\ \E i, j \in DOMAIN boxers :
           /\ boxers[i].fights > 0
           /\ boxers[j].fights > 0
           /\ boxers[i].wins > boxers[j].wins
           /\ \A scan \in ScanOrders(boxers) :
                  LET rows == get_leaderboard(boxers, "win_pct", scan).rows IN
                  /\ Len(rows) = 2
                  /\ rows[1].id = i
                  /\ rows[1].win_pct = 1000
                  /\ rows[2].win_pct = 0

\* C12: get_weight_class returns a class for every weight of 125 or more and
\* fails for every weight below 125; 125, 133, 166 and 203 are the first
\* weights of FEATHERWEIGHT, LIGHTWEIGHT, MIDDLEWEIGHT and HEAVYWEIGHT, and
\* 124, 132, 165 and 202 each fall one class lower (124 in none).
C12_WeightClassLimits ==
    last.op = "get_weight_class" =>
        LET weight == last.r IN
        /\ weight >= 125 =>
               /\ last.result = "ok"
               /\ last.ret \in {"FEATHERWEIGHT", "LIGHTWEIGHT", "MIDDLEWEIGHT",
                                "HEAVYWEIGHT"}
        /\ weight < 125 => last.result = "InvalidWeight" /\ last.ret = ""
        /\ weight = 125 => last.ret = "FEATHERWEIGHT"
        /\ weight = 133 => last.ret = "LIGHTWEIGHT"
        /\ weight = 166 => last.ret = "MIDDLEWEIGHT"
        /\ weight = 203 => last.ret = "HEAVYWEIGHT"
        /\ weight = 124 => last.result = "InvalidWeight"
        /\ weight = 132 => last.ret = "FEATHERWEIGHT"
        /\ weight = 165 => last.ret = "LIGHTWEIGHT"
        /\ weight = 202 => last.ret = "MIDDLEWEIGHT"

C12_Witness ==
    /\ last.op = "get_weight_class"
    /\ last.r = 202
    /\ last.result = "ok"
    /\ last.ret = "MIDDLEWEIGHT"

\* C13: clear_ring empties the ring whether it holds no, one or two boxers,
\* has no failing path, and clearing a second time changes nothing: a
\* cleared ring is empty and stays empty under clear_ring.
C13_ClearEmptiesAndIsIdempotent ==
    /\ Len(ring) \in 0 .. 2
    /\ clear_ring(ring) = <<>>
    /\ clear_ring(clear_ring(ring)) = clear_ring(ring)
    /\ last.op = "clear_ring" =>
           /\ last.result = "ok"
           /\ ring = <<>>
           /\ ring = clear_ring(last.before)

\* Two boxers were cleared out.
C13_Witness ==
    /\ last.op = "clear_ring"
    /\ last.result = "ok"
    /\ Len(last.before) = 2
    /\ ring = <<>>

\* C14: when fight's update of the winner succeeds and its update of the
\* loser fails, fight raises with the ring still holding both occupants, the
\* winner's row keeps its added fight and win, no other row has changed, and
\* a fight called again at once on the same draw adds a second fight and a
\* second win to the same winner for the same bout.
C14_HalfCountedBoutCanBeCountedAgain ==
    \A resp \in Responses :
        LET out == fight(ring, boxers, resp) IN
        (/\ Len(ring) = 2
         /\ Len(out.calls) = 2
         /\ out.calls[1].status = "ok"
         /\ out.calls[2].status # "ok") =>
            LET w == out.calls[1].id
                again == fight(out.ring, out.boxers, resp)
            IN  /\ out.result # "ok"
                /\ out.ring = ring
                /\ Len(out.ring) = 2
                /\ DOMAIN out.boxers = DOMAIN boxers
                /\ out.boxers[w].fights = boxers[w].fights + 1
                /\ out.boxers[w].wins = boxers[w].wins + 1
                /\ \A i \in DOMAIN boxers \ {w} : out.boxers[i] = boxers[i]
                /\ Len(again.calls) >= 1
                /\ again.calls[1] = Call(w, "win", "ok")
                /\ again.boxers[w].fights = boxers[w].fights + 2
                /\ again.boxers[w].wins = boxers[w].wins + 2

\* The loser was deleted while in the ring: the winner has its win, the
\* fight has failed and both are still in the ring.
C14_Witness ==
    /\ last.op = "fight"
    /\ last.result = "NotFound"
    /\ Len(last.calls) = 2
    /\ last.calls[1].status = "ok"
    /\ last.calls[2].status = "NotFound"
    /\ Len(ring) = 2
    /\ ring = last.before
    /\ boxers[last.calls[1].id].fights = 1
    /\ boxers[last.calls[1].id].wins = 1

\* C15: in every table state reached by create_boxer, delete_boxer,
\* update_boxer_stats and fight, every row has 0 <= wins <= fights, so the
\* win_pct of every leaderboard row lies between 0 and 100 percent.
C15_WinsWithinFights ==
    /\ \A i \in DOMAIN boxers :
           /\ 0 <= boxers[i].wins
           /\ boxers[i].wins <= boxers[i].fights
    /\ \A i \in DOMAIN boxers :
           boxers[i].fights > 0 =>
               /\ 0 <= LeaderboardRow(boxers, i).win_pct
               /\ LeaderboardRow(boxers, i).win_pct <= 1000

\* A fight has left one row with as many wins as fights and another with a
\* fight and no win.
C15_Witness ==
    /\ last.op = "fight"
    /\ last.result = "ok"
    /\ \E i, j \in DOMAIN boxers :
           /\ boxers[i].fights = 1 /\ boxers[i].wins = 1
           /\ boxers[j].fights = 1 /\ boxers[j].wins = 0

\* C16: whenever the ring holds two occupants they have different ids, so
\* the 'win' update and the 'loss' update of one fight never go to the same
\* boxer.
C16_OccupantsAreTwoBoxers ==
    /\ Len(ring) = 2 => ring[1].id # ring[2].id
    /\ \A resp \in Responses :
           LET out == fight(ring, boxers, resp) IN
           Len(out.calls) = 2 => out.calls[1].id # out.calls[2].id

\* The sum of f over the set S of its arguments.
RECURSIVE Sum(_, _)
Sum(f, S) ==
    IF S = {} THEN 0
    ELSE LET i == CHOOSE x \in S : TRUE IN f[i] + Sum(f, S \ {i})

TotalFights(store) ==
    Sum([i \in DOMAIN store |-> store[i].fights], DOMAIN store)

TotalWins(store) ==
    Sum([i \in DOMAIN store |-> store[i].wins], DOMAIN store)

\* C17: in the runs where only fight writes the counters and no boxer is
\* deleted, after every call of fight the fights of all rows add up to twice
\* the wins of all rows, and the wins add up to the number of fights that
\* have returned a winner.
C17_TotalsMatchBouts ==
    last.op = "fight" =>
        /\ TotalFights(boxers) = 2 * TotalWins(boxers)
        /\ TotalWins(boxers) = bouts

\* The second bout of two boxers has been counted.
C17_Witness ==
    /\ last.op = "fight"
    /\ last.result = "ok"
    /\ bouts = 2
    /\ Cardinality(DOMAIN boxers) = 2
    /\ \A i \in DOMAIN boxers : boxers[i].fights = 2
    /\ TotalWins(boxers) = 2

====
